---- MODULE Spec2Model ----
(***************************************************************************)
(* Model of topgg/ratelimiter.py (Ratelimiter, Ratelimiters, shared_aexit) *)
(* and topgg/webhook.py (Vote, Webhooks).                                  *)
(*                                                                         *)
(* Scheduling is asyncio's: one task runs at a time and is pre-empted only *)
(* at an await that really suspends (a contended lock, a sleep, a gather). *)
(* Every action below is therefore one run of a task between two           *)
(* suspension points.                                                      *)
(***************************************************************************)
EXTENDS Integers, Sequences, FiniteSets, TLC

\* ------------------------------------------------------------------ bounds
MaxTime == 2        \* the clock runs freely up to here, then only for sleepers
MaxBlocks == 2      \* `async with` blocks entered, over all tasks
MaxQueueBlocks == 3 \* the same, where three tasks queue for one limiter

MaxHandlers == 1    \* handlers registered with on_vote
MaxSites == 2       \* TCPSite objects start() creates

Limiters == {1, 2}
Tasks == {1, 2, 3}
Workers == {1, 2}                   \* the tasks that run when two are enough
Pos == {1, 2}                       \* positions in a Ratelimiters tuple
\* Arguments <<max_calls, period>> tried: a valid pair, and invalid ones.
Configs == {<<1, 2>>, <<1, 0>>, <<0, 2>>, <<-1, 2>>}

Callers == {1, 2}                   \* tasks that call start() and close()
SerialCallers == {1}                \* those of them that run in WebhookSpec
Reqs == {1}                         \* requests that can be in flight at once

NoHolder == <<0, 0>>                \* the lock is not held
Self(t) == <<t, 0>>                 \* task t itself, as a lock holder
ChildOf(t, i) == <<t, i>>           \* the release that gather runs for position i

VARIABLES
    now,          \* time()
    constructed,  \* which Ratelimiter objects exist
    max_calls,    \* Ratelimiter.__max_calls
    period,       \* Ratelimiter.__period
    calls,        \* Ratelimiter.__calls, oldest first
    lock,         \* Ratelimiter.__lock: its holder
    waiters,      \* Ratelimiter.__lock: its FIFO queue of waiters
    members,      \* Ratelimiters.__ratelimiters of the object task t uses
    composite,    \* whether task t uses a Ratelimiters (else one Ratelimiter)
    pc,           \* where task t is
    idx,          \* iteration of the for loop of Ratelimiters.__aenter__
    until,        \* wake-up time of the sleep of task t
    child,        \* the member releases gather runs for task t, by position
    firstFail,    \* position whose exception gather handed to task t (0: none)
    blocks,       \* `async with` blocks entered so far, over all tasks
    admitted,     \* history: times at which __aenter__ of a limiter returned
    acq           \* history: progress of the member acquires of task t

rlVars == <<now, constructed, max_calls, period, calls, lock, waiters, members,
            composite, pc, idx, until, child, firstFail, blocks, admitted, acq>>

\* Webhooks and the requests it is serving.
VARIABLES
    default_auth,  \* Webhooks.__default_auth
    default_port,  \* Webhooks.__default_port
    running,       \* Webhooks.__running
    server,        \* Webhooks.__server: the TCPSite last created (0: None)
    handlers,      \* the handlers on_vote added to the router of Webhooks.__app
    sites,         \* the TCPSite objects created so far, and what became of each
    lpc,           \* where each caller of start() or close() is
    lsite,         \* the site a start() or close() under way works on
    rpc,           \* where each request is
    rh,            \* the handler the request was routed to
    rhdr,          \* the request's Authorization header
    rbody,         \* the request's body
    resp,          \* the response returned for the request
    decoded,       \* history: request.json() was awaited for the request
    invoked,       \* history: calls of the on_vote callback for the request
    payload,       \* history: the Vote the callback was called with
    deferred,      \* the awaitable the callback returned: "none", "pending", "done"
    reg_error,     \* history: what the last on_vote call raised ("": nothing)
    lres           \* history: how the last start() or close() of each caller ended

whVars == <<default_auth, default_port, running, server, handlers, sites, lpc, lsite,
            rpc, rh, rhdr, rbody, resp, decoded, invoked, payload, deferred,
            reg_error, lres>>

\* A Vote being constructed from a raw structure, apart from any request.
VARIABLES
    raw,           \* the json argument of Vote()
    built          \* what Vote(raw) came to: nothing yet, a Vote, or a failure

voteVars == <<raw, built>>

vars == <<rlVars, whVars, voteVars>>

\* ------------------------------------------------------------ Ratelimiter
Timespan(c) == IF Len(c) >= 2 THEN c[Len(c)] - c[1] ELSE 0

TrimCond(c, p) == Timespan(c) >= p

\* The while loop of shared_aexit; popleft on an empty deque raises IndexError.
RECURSIVE Trim(_, _)
Trim(c, p) ==
    IF TrimCond(c, p)
    THEN IF c = <<>> THEN [ok |-> FALSE, calls |-> c] ELSE Trim(Tail(c), p)
    ELSE [ok |-> TRUE, calls |-> c]

\* The name the compiler makes of a private name __x: _cls__x in the body of
\* class cls, and __x itself in a function written outside every class
\* (cls = "").
Mangle(cls, name) == IF cls = "" THEN name ELSE "_" \o cls \o name

\* __slots__ of Ratelimiter, written in the class body: all it has.
RatelimiterSlots ==
    {Mangle("Ratelimiter", n) : n \in {"__lock", "__max_calls", "__period", "__calls"}}

\* shared_aexit is written at module level, outside the class.
SharedAexitScope == ""

\* self.__lock in shared_aexit finds an attribute of the Ratelimiter; when it
\* does not, AttributeError is raised before the lock is asked for.
AexitFindsLock == Mangle(SharedAexitScope, "__lock") \in RatelimiterSlots

\* The body of shared_aexit under the lock: append, then trim.
shared_aexit(l) == Trim(Append(calls[l], now), period[l])

MustWait(l) == Len(calls[l]) >= max_calls[l]

SleepTime(l) == period[l] - Timespan(calls[l])

\* asyncio.Lock: acquired at once only when unlocked with nobody queued;
\* a release hands the lock to the first waiter.
LockFree(l) == lock[l] = NoHolder /\ waiters[l] = <<>>

\* Mutant of LockAfterRelease: the waiter that came last is woken.
LockAfterReleaseLast(l) ==
    IF waiters[l] = <<>> THEN NoHolder ELSE waiters[l][Len(waiters[l])]

LockAfterRelease(l) == IF waiters[l] = <<>> THEN NoHolder ELSE Head(waiters[l])

WaitersAfterRelease(l) == IF waiters[l] = <<>> THEN <<>> ELSE Tail(waiters[l])

Unlock(l) ==
    /\ lock' = [lock EXCEPT ![l] = LockAfterRelease(l)]
    /\ waiters' = [waiters EXCEPT ![l] = WaitersAfterRelease(l)]

\* Ratelimiter.__init__: stores its arguments, checks nothing.
RatelimiterInit(l, mc, p) ==
    /\ ~constructed[l]
    /\ constructed' = [constructed EXCEPT ![l] = TRUE]
    /\ calls' = [calls EXCEPT ![l] = <<>>]
    /\ period' = [period EXCEPT ![l] = p]
    /\ max_calls' = [max_calls EXCEPT ![l] = mc]
    /\ lock' = [lock EXCEPT ![l] = NoHolder]
    /\ UNCHANGED <<now, waiters, members, composite, pc, idx, until, child,
                   firstFail, blocks, admitted, acq>>
    /\ UNCHANGED <<whVars, voteVars>>

\* ----------------------------------------------------------- Ratelimiters
\* The position the for loop of Ratelimiters.__aenter__ visits in iteration k.
\* Mutant of AcquirePos: the tuple is walked from its last member.
AcquirePosReversed(n, k) == n - k + 1

AcquirePos(n, k) == k

Member(t) == members[t][AcquirePos(Len(members[t]), idx[t])]

\* What a task can enter: a Ratelimiter <<l>>, or a Ratelimiters(<<a, b>>).
Targets ==
    {<<l>> : l \in Limiters}
    \cup {<<ab[1], ab[2]>> : ab \in {x \in Limiters \X Limiters : x[1] # x[2]}}

\* The block is left: its object and loop variable are gone.
Leave(t) ==
    /\ members' = [members EXCEPT ![t] = <<>>]
    /\ composite' = [composite EXCEPT ![t] = FALSE]
    /\ idx' = [idx EXCEPT ![t] = 1]
    /\ acq' = [acq EXCEPT ![t] = [i \in Pos |-> "no"]]
    /\ pc' = [pc EXCEPT ![t] = "idle"]

\* Ratelimiter.__aenter__ of l, with lock holders lk and queues wt, returns
\* without suspending: the lock is free and there is nothing to sleep for.
Passes(l, lk, wt) ==
    /\ lk[l] = NoHolder /\ wt[l] = <<>>
    /\ ~(MustWait(l) /\ SleepTime(l) > 0)

\* The first iteration from k on of the for loop of Ratelimiters.__aenter__
\* in which the task suspends; Len(ms) + 1 when the loop runs to its end.
RECURSIVE StopAt(_, _, _, _)
StopAt(ms, k, lk, wt) ==
    IF k > Len(ms) THEN k
    ELSE IF Passes(ms[AcquirePos(Len(ms), k)], lk, wt)
         THEN StopAt(ms, k + 1, lk, wt)
         ELSE k

\* Mutant of SleepHolder: the lock is left before the sleep.
SleepHolderNobody(t) == NoHolder

\* `await asyncio.sleep(...)` is inside `async with self.__lock`: the lock
\* stays with the task that sleeps.
SleepHolder(t) == Self(t)

\* Task t runs the loop over ms from iteration k on, up to its next
\* suspension, after the __aenter__ of rel returned (rel = 0: none did):
\* a task keeps running until an await really suspends it.
RunLoop(t, ms, k, rel) ==
    LET n == Len(ms)
        lk == IF rel = 0 THEN lock ELSE [lock EXCEPT ![rel] = LockAfterRelease(rel)]
        wt == IF rel = 0 THEN waiters
              ELSE [waiters EXCEPT ![rel] = WaitersAfterRelease(rel)]
        s == StopAt(ms, k, lk, wt)
        passed == {ms[AcquirePos(n, j)] : j \in k .. (s - 1)}
                      \cup (IF rel = 0 THEN {} ELSE {rel})
        l == ms[AcquirePos(n, s)]
    IN
    /\ admitted' = [x \in Limiters |->
                       IF x \in passed THEN Append(admitted[x], now) ELSE admitted[x]]
    /\ acq' = [acq EXCEPT ![t] =
                  [i \in Pos |->
                      IF \E j \in 1 .. (s - 1) : AcquirePos(n, j) = i THEN "returned"
                      ELSE IF s <= n /\ AcquirePos(n, s) = i THEN "started"
                      ELSE "no"]]
    /\ idx' = [idx EXCEPT ![t] = IF s <= n THEN s ELSE n]
    /\ IF s > n
       THEN /\ pc' = [pc EXCEPT ![t] = "body"]
            /\ until' = [until EXCEPT ![t] = 0]
            /\ lock' = lk
            /\ waiters' = wt
       ELSE IF lk[l] = NoHolder /\ wt[l] = <<>>
       THEN /\ pc' = [pc EXCEPT ![t] = "sleeping"]
            /\ until' = [until EXCEPT ![t] = now + SleepTime(l)]
            /\ lock' = [lk EXCEPT ![l] = SleepHolder(t)]
            /\ waiters' = wt
       ELSE /\ pc' = [pc EXCEPT ![t] = "queued"]
            /\ until' = [until EXCEPT ![t] = 0]
            /\ lock' = lk
            /\ waiters' = [wt EXCEPT ![l] = Append(@, Self(t))]

\* A task enters `async with x:`, x a Ratelimiter or a Ratelimiters(ms),
\* for the first time or after a block that ended with an exception.
\* Limiters are created at setup, before the tasks that use them run.
\* No more than n blocks are entered.
Enter(t, ms, n) ==
    /\ pc[t] \in {"idle", "raised", "cancelled"}
    /\ \A l \in Limiters : constructed[l]
    /\ blocks < n
    /\ blocks' = blocks + 1
    /\ members' = [members EXCEPT ![t] = ms]
    /\ composite' = [composite EXCEPT ![t] = (Len(ms) > 1)]
    /\ RunLoop(t, ms, 1, 0)
    /\ child' = [child EXCEPT ![t] = [i \in Pos |-> "none"]]
    /\ firstFail' = [firstFail EXCEPT ![t] = 0]
    /\ UNCHANGED <<now, constructed, max_calls, period, calls>>
    /\ UNCHANGED <<whVars, voteVars>>

Begin(t, ms) == Enter(t, ms, MaxBlocks)

\* The queued __aenter__ is handed the lock: it sleeps, or returns.
AenterGranted(t) ==
    /\ pc[t] = "queued"
    /\ lock[Member(t)] = Self(t)
    /\ IF MustWait(Member(t)) /\ SleepTime(Member(t)) > 0
       THEN /\ pc' = [pc EXCEPT ![t] = "sleeping"]
            /\ until' = [until EXCEPT ![t] = now + SleepTime(Member(t))]
            /\ UNCHANGED <<lock, waiters, admitted, acq, idx>>
       ELSE RunLoop(t, members[t], idx[t] + 1, Member(t))
    /\ UNCHANGED <<now, constructed, max_calls, period, calls, members, composite,
                   child, firstFail, blocks>>
    /\ UNCHANGED <<whVars, voteVars>>

\* asyncio.sleep(sleep_time) is over: __aenter__ leaves the lock and returns.
SleepWake(t) ==
    /\ pc[t] = "sleeping"
    /\ now >= until[t]
    /\ RunLoop(t, members[t], idx[t] + 1, Member(t))
    /\ UNCHANGED <<now, constructed, max_calls, period, calls, members, composite,
                   child, firstFail, blocks>>
    /\ UNCHANGED <<whVars, voteVars>>

\* Mutant of CallsAfterCancel: a cancelled acquire is recorded.
CallsAfterCancelRecorded(c) == Append(c, now)

\* What the calls of a limiter are once CancelledError has gone through its
\* __aenter__: no line of it touches them.
CallsAfterCancel(c) == c

\* The task is cancelled while its __aenter__ is suspended: CancelledError
\* goes up through `async with self.__lock`, which leaves the lock if the
\* task has it (asleep, or woken with the lock and not yet run) and else
\* leaves the queue; __aexit__ is not called.
Cancel(t) ==
    /\ pc[t] \in {"queued", "sleeping"}
    /\ LET l == Member(t) IN
       /\ IF lock[l] = Self(t)
          THEN Unlock(l)
          ELSE /\ waiters' = [waiters EXCEPT ![l] = SelectSeq(@, LAMBDA w : w # Self(t))]
               /\ UNCHANGED lock
       /\ calls' = [calls EXCEPT ![l] = CallsAfterCancel(@)]
    /\ pc' = [pc EXCEPT ![t] = "cancelled"]
    /\ until' = [until EXCEPT ![t] = 0]
    /\ UNCHANGED <<now, constructed, max_calls, period, members, composite, idx,
                   child, firstFail, blocks, admitted, acq>>
    /\ UNCHANGED <<whVars, voteVars>>

\* ------------------------------------------------- release of one limiter
\* shared_aexit of limiter l for task t, once the lock is held: lines 14-16,
\* then the lock is left.
AexitLocked(t, l) ==
    LET r == shared_aexit(l) IN
    /\ calls' = [calls EXCEPT ![l] = r.calls]
    /\ Unlock(l)
    /\ IF r.ok
       THEN Leave(t)
       ELSE /\ pc' = [pc EXCEPT ![t] = "raised"]
            /\ UNCHANGED <<members, composite, idx, acq>>

\* Ratelimiter.__aexit__ runs up to its next suspension or to its end.
Aexit(t) ==
    /\ ~composite[t]
    /\ pc[t] \in {"body", "relqueued"}
    /\ pc[t] = "relqueued" => lock[members[t][1]] = Self(t)
    /\ LET l == members[t][1] IN
       IF pc[t] = "relqueued"
       THEN AexitLocked(t, l)
       ELSE IF ~AexitFindsLock
       THEN /\ pc' = [pc EXCEPT ![t] = "raised"]
            /\ UNCHANGED <<calls, lock, waiters, members, composite, idx, acq>>
       ELSE IF LockFree(l)
       THEN AexitLocked(t, l)
       ELSE /\ waiters' = [waiters EXCEPT ![l] = Append(@, Self(t))]
            /\ pc' = [pc EXCEPT ![t] = "relqueued"]
            /\ UNCHANGED <<calls, lock, members, composite, idx, acq>>
    /\ UNCHANGED <<now, constructed, max_calls, period, until, child, firstFail,
                   blocks, admitted>>
    /\ UNCHANGED <<whVars, voteVars>>

\* ------------------------------------------------ Ratelimiters.__aexit__
\* asyncio.gather schedules one release per member, in tuple order.
GatherCall(t) ==
    /\ pc[t] = "body"
    /\ composite[t]
    /\ child' = [child EXCEPT ![t] =
                    [i \in Pos |-> IF i <= Len(members[t]) THEN "start" ELSE "none"]]
    /\ firstFail' = [firstFail EXCEPT ![t] = 0]
    /\ pc' = [pc EXCEPT ![t] = "gathering"]
    /\ UNCHANGED <<now, constructed, max_calls, period, calls, lock, waiters,
                   members, composite, idx, until, blocks, admitted, acq>>
    /\ UNCHANGED <<whVars, voteVars>>

\* The same for the release gather runs for position i.
ChildLocked(t, i, l) ==
    LET r == shared_aexit(l) IN
    /\ calls' = [calls EXCEPT ![l] = r.calls]
    /\ Unlock(l)
    /\ child' = [child EXCEPT ![t][i] = IF r.ok THEN "done" ELSE "failed"]
    /\ firstFail' = [firstFail EXCEPT ![t] = IF ~r.ok /\ @ = 0 THEN i ELSE @]

\* gather made a task of every release: each has its first run, in tuple
\* order, whatever became of the others.
ChildRuns(t, i) == \A j \in Pos : j < i => child[t][j] # "start"

\* The release of position i runs up to its next suspension or to its end.
ChildStep(t, i) ==
    /\ \/ child[t][i] = "start" /\ ChildRuns(t, i)
       \/ child[t][i] = "queued" /\ lock[members[t][i]] = ChildOf(t, i)
    /\ LET l == members[t][i] IN
       IF child[t][i] = "queued"
       THEN ChildLocked(t, i, l)
       ELSE IF ~AexitFindsLock
       THEN /\ child' = [child EXCEPT ![t][i] = "failed"]
            /\ firstFail' = [firstFail EXCEPT ![t] = IF @ = 0 THEN i ELSE @]
            /\ UNCHANGED <<calls, lock, waiters>>
       ELSE IF LockFree(l)
       THEN ChildLocked(t, i, l)
       ELSE /\ waiters' = [waiters EXCEPT ![l] = Append(@, ChildOf(t, i))]
            /\ child' = [child EXCEPT ![t][i] = "queued"]
            /\ UNCHANGED <<calls, lock, firstFail>>
    /\ UNCHANGED <<now, constructed, max_calls, period, members, composite, pc,
                   idx, until, blocks, admitted, acq>>
    /\ UNCHANGED <<whVars, voteVars>>

\* gather hands the first exception to its caller as soon as it is raised.
GatherRaises(t) == firstFail[t] # 0

GatherReturns(t) == \A i \in Pos : child[t][i] \in {"none", "done"}

\* `await asyncio.gather(...)` resumes, after every release had its first run.
GatherResume(t) ==
    /\ pc[t] = "gathering"
    /\ \A i \in Pos : child[t][i] # "start"
    /\ \/ /\ GatherRaises(t)
          /\ pc' = [pc EXCEPT ![t] = "raised"]
          /\ UNCHANGED <<members, composite, idx, acq, child>>
       \/ /\ ~GatherRaises(t)
          /\ GatherReturns(t)
          /\ Leave(t)
          /\ child' = [child EXCEPT ![t] = [i \in Pos |-> "none"]]
    /\ UNCHANGED <<now, constructed, max_calls, period, calls, lock, waiters,
                   until, firstFail, blocks, admitted>>
    /\ UNCHANGED <<whVars, voteVars>>

\* ------------------------------------------------------------------ clock
\* History kept: the admissions a window of length p ending after n can hold.
InWindow(a, p, n) == SelectSeq(a, LAMBDA x : x + p > n)

Tick ==
    /\ \/ now < MaxTime
       \/ \E t \in Tasks : pc[t] = "sleeping" /\ until[t] > now
    /\ now' = now + 1
    /\ admitted' = [l \in Limiters |-> InWindow(admitted[l], period[l], now + 1)]
    /\ UNCHANGED <<constructed, max_calls, period, calls, lock, waiters, members,
                   composite, pc, idx, until, child, firstFail, blocks, acq>>
    /\ UNCHANGED <<whVars, voteVars>>

\* ------------------------------------------------------------------- Vote
NoneV == "None"                     \* Python's None
Absent == "absent"                  \* a key the JSON object does not hold

Truthy(v) == v \notin {NoneV, "", "0"}

IsNumeric(v) == v \in {"123", "456"}

\* int(): the number a numeric string stands for.
ToInt(v) == IF v = "123" THEN 123 ELSE IF v = "456" THEN 456 ELSE 0

\* parse.urlsplit(s).query, split at "&" and "=".
UrlQueryPairs(s) ==
    IF s = "https://x?ref=abc&x=1&ref=zzz"
    THEN <<<<"ref", "abc">>, <<"x", "1">>, <<"ref", "zzz">>>>
    ELSE <<>>

\* {k: v[0] for k, v in parse_qs(...).items()}: the first value of each key.
QueryParse(s) ==
    LET q == UrlQueryPairs(s)
        first(k) == CHOOSE i \in 1 .. Len(q) :
                        /\ q[i][1] = k
                        /\ \A j \in 1 .. (i - 1) : q[j][1] # k
    IN [k \in {q[i][1] : i \in 1 .. Len(q)} |-> q[first(k)][2]]

NoVote == [none |-> TRUE]

\* Mutant of ReceiverRaw: guild is looked up first.
ReceiverRawGuildFirst(j) == IF j.guild # Absent THEN j.guild ELSE j.bot

\* json.get("bot", json.get("guild")): None when neither key is there.
ReceiverRaw(j) == IF j.bot # Absent THEN j.bot ELSE j.guild

\* Vote.__init__: raises when int() or a subscript does, else the Vote.
VoteInit(j) ==
    IF IsNumeric(ReceiverRaw(j)) /\ IsNumeric(j.user) /\ j.type # Absent
    THEN [ok |-> TRUE,
          vote |-> [receiver_id |-> ToInt(ReceiverRaw(j)),
                    voter_id |-> ToInt(j.user),
                    is_server |-> j.guild # Absent,
                    is_test |-> j.type = "test",
                    is_weekend |-> j.isWeekend = "true",
                    query |-> IF Truthy(j.query) /\ j.query # Absent
                              THEN QueryParse(j.query) ELSE <<>>]]
    ELSE [ok |-> FALSE, vote |-> NoVote]

Obj(b, g, u, ty, wk, q) ==
    [decodes |-> TRUE, bot |-> b, guild |-> g, user |-> u, type |-> ty,
     isWeekend |-> wk, query |-> q]

\* Request bodies tried: two well-formed ones, one with each flaw, and one
\* that is no JSON.
Bodies ==
    { Obj("123", Absent, "456", "test", Absent, Absent),
      Obj(Absent, "123", "456", "upvote", "true", "https://x?ref=abc&x=1&ref=zzz"),
      Obj(Absent, Absent, "456", "test", Absent, Absent),
      Obj("abc", "123", "456", "test", Absent, Absent),
      Obj("123", Absent, Absent, "test", Absent, ""),
      Obj("123", "456", "456", Absent, "false", Absent),
      [Obj(Absent, Absent, Absent, Absent, Absent, Absent) EXCEPT !.decodes = FALSE] }

\* The body of a request that has not been read.
NoBody == Obj(Absent, Absent, Absent, Absent, Absent, Absent)

\* Raw structures tried: each key absent, or present with one of two values;
\* "abc" is an id that is no number.
RawStructures ==
    { Obj(b, g, u, ty, wk, q) :
        b \in {Absent, "123", "abc"}, g \in {Absent, "456", "abc"},
        u \in {Absent, "456", "abc"}, ty \in {Absent, "test", "upvote"},
        wk \in {Absent, "true", "false"},
        q \in {Absent, "", "https://x?ref=abc&x=1&ref=zzz"} }

NotBuilt == [ok |-> FALSE, vote |-> [none |-> FALSE]]

\* No Vote is constructed apart from the requests.
VoteUnused == raw = NoBody /\ built = NotBuilt

\* Vote(raw) is called.
VoteNew ==
    /\ built = NotBuilt
    /\ built' = VoteInit(raw)
    /\ UNCHANGED <<raw, rlVars, whVars>>

\* --------------------------------------------------------------- Webhooks
RouteArgs == {NoneV, "/dbl", "/votes"}   \* NoneV: a route that is no str
AuthArgs == {NoneV, "", "pw", "pw2"}
PortArgs == {NoneV, "0", "8080"}
DefaultAuthArgs == {NoneV, "", "pw"}       \* auth arguments of Webhooks() tried
DefaultPortArgs == {NoneV, "8080"}       \* port arguments of Webhooks() tried
Headers == {NoneV, "pw", "pw2"}          \* NoneV: no Authorization header
Callbacks == {"sync", "async"}           \* what the callback returns

NoResp == [status |-> 0, text |-> ""]

\* Webhooks.__init__
WebhooksInit(auth, port) ==
    /\ default_auth = auth
    /\ default_port = port
    /\ running = FALSE
    /\ server = 0
    /\ handlers = {}
    /\ sites = <<>>
    /\ lpc = [c \in Callers |-> "idle"]
    /\ lsite = [c \in Callers |-> 0]
    /\ rpc = [r \in Reqs |-> "none"]
    /\ rh = [r \in Reqs |-> [route |-> "", auth |-> "", cb |-> ""]]
    /\ rhdr = [r \in Reqs |-> NoneV]
    /\ rbody = [r \in Reqs |-> NoBody]
    /\ resp = [r \in Reqs |-> NoResp]
    /\ decoded = [r \in Reqs |-> FALSE]
    /\ invoked = [r \in Reqs |-> 0]
    /\ payload = [r \in Reqs |-> NoVote]
    /\ deferred = [r \in Reqs |-> "none"]
    /\ reg_error = ""
    /\ lres = [c \in Callers |-> "none"]

\* auth or self.__default_auth
EffectiveAuth(auth) == IF Truthy(auth) THEN auth ELSE default_auth

\* Mutant of Resolves: only None counts as no credential.
ResolvesUnlessNone(a) == a # NoneV

\* `if not effective_auth` fails: a credential resolved.
Resolves(a) == Truthy(a)

\* isinstance(route, str)
IsStr(route) == route # NoneV

\* Webhooks.on_vote with a callback, directly or as a decorator: it raises
\* TypeError, or the handler closure is added to the router.
on_vote(route, auth, cb) ==
    /\ IF ~IsStr(route)
       THEN /\ reg_error' = "Missing route argument."
            /\ UNCHANGED handlers
       ELSE IF ~Resolves(EffectiveAuth(auth))
       THEN /\ reg_error' = "Missing password."
            /\ UNCHANGED handlers
       ELSE /\ Cardinality(handlers) < MaxHandlers
            /\ reg_error' = ""
            /\ handlers' = handlers \cup
                   {[route |-> route, auth |-> EffectiveAuth(auth), cb |-> cb]}
    /\ UNCHANGED <<default_auth, default_port, running, server, sites, lpc, lsite,
                   rpc, rh, rhdr, rbody, resp, decoded, invoked, payload,
                   deferred, lres>>
    /\ UNCHANGED <<rlVars, voteVars>>

\* Mutant of AuthOk: a request without the header is let through.
AuthOkOrMissing(hdr, auth) == hdr = auth \/ hdr = NoneV

\* request.headers.get("Authorization") != effective_auth, negated
AuthOk(hdr, auth) == hdr = auth

\* Mutant of IsAwaitable: the result is never awaited.
IsAwaitableNever(cb) == FALSE

\* isawaitable(result)
IsAwaitable(cb) == cb = "async"

\* The transport hands a request to the handler of a route, which checks the
\* header and then awaits the body.
HandlerCall(r, h, hdr) ==
    /\ rpc[r] \in {"none", "responded", "failed"}
    /\ \E i \in 1 .. Len(sites) : sites[i] = "started"
    /\ h \in handlers
    /\ rh' = [rh EXCEPT ![r] = h]
    /\ rhdr' = [rhdr EXCEPT ![r] = hdr]
    /\ rbody' = [rbody EXCEPT ![r] = NoBody]
    /\ invoked' = [invoked EXCEPT ![r] = 0]
    /\ payload' = [payload EXCEPT ![r] = NoVote]
    /\ deferred' = [deferred EXCEPT ![r] = "none"]
    /\ IF ~AuthOk(hdr, h.auth)
       THEN /\ resp' = [resp EXCEPT ![r] = [status |-> 401, text |-> "Unauthorized"]]
            /\ rpc' = [rpc EXCEPT ![r] = "responded"]
            /\ decoded' = [decoded EXCEPT ![r] = FALSE]
       ELSE /\ resp' = [resp EXCEPT ![r] = NoResp]
            /\ rpc' = [rpc EXCEPT ![r] = "reading"]
            /\ decoded' = [decoded EXCEPT ![r] = TRUE]
    /\ UNCHANGED <<default_auth, default_port, running, server, handlers, sites,
                   lpc, lsite>>
    /\ UNCHANGED <<reg_error, lres>>
    /\ UNCHANGED <<rlVars, voteVars>>

\* Mutant of BodyFails: only a body that is no JSON fails.
BodyFailsToDecode(b) == ~b.decodes

\* Vote(await request.json()) raises: json() does, or Vote.__init__ does.
BodyFails(b) == ~b.decodes \/ ~VoteInit(b).ok

\* `await request.json()` is over, the body being b: Vote(...), then the
\* callback is called.
HandlerBody(r, b) ==
    /\ rpc[r] = "reading"
    /\ rbody' = [rbody EXCEPT ![r] = b]
    /\ LET v == VoteInit(b) IN
       IF BodyFails(b)
       THEN /\ rpc' = [rpc EXCEPT ![r] = "failed"]
            /\ UNCHANGED <<resp, invoked, payload, deferred>>
       ELSE /\ invoked' = [invoked EXCEPT ![r] = @ + 1]
            /\ payload' = [payload EXCEPT ![r] = v.vote]
            /\ deferred' = [deferred EXCEPT ![r] =
                               IF rh[r].cb = "async" THEN "pending" ELSE "none"]
            /\ IF IsAwaitable(rh[r].cb)
               THEN /\ rpc' = [rpc EXCEPT ![r] = "awaiting"]
                    /\ resp' = resp
               ELSE /\ rpc' = [rpc EXCEPT ![r] = "responded"]
                    /\ resp' = [resp EXCEPT ![r] = [status |-> 200, text |-> "OK"]]
    /\ UNCHANGED <<default_auth, default_port, running, server, handlers, sites,
                   lpc, lsite, rh, rhdr, decoded>>
    /\ UNCHANGED <<reg_error, lres>>
    /\ UNCHANGED <<rlVars, voteVars>>

\* The awaitable the callback returned completes.
DeferredCompletes(r) ==
    /\ deferred[r] = "pending"
    /\ deferred' = [deferred EXCEPT ![r] = "done"]
    /\ UNCHANGED <<default_auth, default_port, running, server, handlers, sites,
                   lpc, lsite, rpc, rh, rhdr, rbody, resp, decoded, invoked,
                   payload>>
    /\ UNCHANGED <<reg_error, lres>>
    /\ UNCHANGED <<rlVars, voteVars>>

\* `await result` is over.
HandlerAwaited(r) ==
    /\ rpc[r] = "awaiting"
    /\ deferred[r] = "done"
    /\ rpc' = [rpc EXCEPT ![r] = "responded"]
    /\ resp' = [resp EXCEPT ![r] = [status |-> 200, text |-> "OK"]]
    /\ UNCHANGED <<default_auth, default_port, running, server, handlers, sites,
                   lpc, lsite, rh, rhdr, rbody, decoded, invoked, payload,
                   deferred>>
    /\ UNCHANGED <<reg_error, lres>>
    /\ UNCHANGED <<rlVars, voteVars>>

\* port or self.__default_port
ResolvePort(port) == IF Truthy(port) THEN port ELSE default_port

\* How a call ended, as lres keeps it: "skipped" (it returned at once),
\* "returned" (it did its work), "TypeError", or "raised" (an await raised).
Ended(op, how) == op \o ":" \o how

\* Mutant of Running: the flag is never seen set.
RunningNever == FALSE

\* Webhooks.running
Running == running

\* Webhooks.start up to `await runner.setup()`: when running it returns, and
\* without a port it raises TypeError.
StartCall(c, port) ==
    /\ lpc[c] = "idle"
    /\ IF Running
       THEN /\ lres' = [lres EXCEPT ![c] = Ended("start", "skipped")]
            /\ UNCHANGED lpc
       ELSE IF ResolvePort(port) = NoneV
       THEN /\ lres' = [lres EXCEPT ![c] = Ended("start", "TypeError")]
            /\ UNCHANGED lpc
       ELSE /\ Len(sites) + Cardinality({d \in Callers : lpc[d] = "setup"}) < MaxSites
            /\ lpc' = [lpc EXCEPT ![c] = "setup"]
            /\ lres' = [lres EXCEPT ![c] = "none"]
    /\ UNCHANGED <<default_auth, default_port, running, server, handlers, sites,
                   lsite, rpc, rh, rhdr, rbody, resp, decoded, invoked,
                   payload, deferred, reg_error>>
    /\ UNCHANGED <<rlVars, voteVars>>

\* runner.setup() is over: it raised, or the TCPSite is made and stored.
StartSetupDone(c, ok) ==
    /\ lpc[c] = "setup"
    /\ IF ok
       THEN /\ sites' = Append(sites, "created")
            /\ server' = Len(sites) + 1
            /\ lsite' = [lsite EXCEPT ![c] = Len(sites) + 1]
            /\ lpc' = [lpc EXCEPT ![c] = "binding"]
            /\ UNCHANGED lres
       ELSE /\ lpc' = [lpc EXCEPT ![c] = "idle"]
            /\ lres' = [lres EXCEPT ![c] = Ended("start", "raised")]
            /\ UNCHANGED <<sites, server, lsite>>
    /\ UNCHANGED <<default_auth, default_port, running, handlers, rpc, rh,
                   rhdr, rbody, resp, decoded, invoked, payload, deferred,
                   reg_error>>
    /\ UNCHANGED <<rlVars, voteVars>>

\* Mutant of SetsRunning: the flag is set whether or not the site started.
SetsRunningAlways(ok) == TRUE

\* `self.__running = True` is reached: `await self.__server.start()` did not
\* raise.
SetsRunning(ok) == ok

\* self.__server.start() is over: it raised, or running is set.
StartBindDone(c, ok) ==
    /\ lpc[c] = "binding"
    /\ lpc' = [lpc EXCEPT ![c] = "idle"]
    /\ lsite' = [lsite EXCEPT ![c] = 0]
    /\ running' = (IF SetsRunning(ok) THEN TRUE ELSE running)
    /\ IF ok
       THEN /\ sites' = [sites EXCEPT ![lsite[c]] = "started"]
            /\ lres' = [lres EXCEPT ![c] = Ended("start", "returned")]
       ELSE /\ lres' = [lres EXCEPT ![c] = Ended("start", "raised")]
            /\ UNCHANGED sites
    /\ UNCHANGED <<default_auth, default_port, server, handlers, rpc, rh,
                   rhdr, rbody, resp, decoded, invoked, payload, deferred,
                   reg_error>>
    /\ UNCHANGED <<rlVars, voteVars>>

\* Webhooks.close up to `await self.__server.stop()`: when not running it
\* returns.
CloseCall(c) ==
    /\ lpc[c] = "idle"
    /\ IF ~Running
       THEN /\ lres' = [lres EXCEPT ![c] = Ended("close", "skipped")]
            /\ UNCHANGED <<lpc, lsite>>
       ELSE /\ lpc' = [lpc EXCEPT ![c] = "stopping"]
            /\ lsite' = [lsite EXCEPT ![c] = server]
            /\ lres' = [lres EXCEPT ![c] = "none"]
    /\ UNCHANGED <<default_auth, default_port, running, server, handlers, sites,
                   rpc, rh, rhdr, rbody, resp, decoded, invoked, payload,
                   deferred, reg_error>>
    /\ UNCHANGED <<rlVars, voteVars>>

\* self.__server.stop() is over: it raised, or running is cleared.
CloseStopDone(c, ok) ==
    /\ lpc[c] = "stopping"
    /\ lpc' = [lpc EXCEPT ![c] = "idle"]
    /\ lsite' = [lsite EXCEPT ![c] = 0]
    /\ IF ok
       THEN /\ sites' = [sites EXCEPT ![lsite[c]] = "stopped"]
            /\ running' = FALSE
            /\ lres' = [lres EXCEPT ![c] = Ended("close", "returned")]
       ELSE /\ lres' = [lres EXCEPT ![c] = Ended("close", "raised")]
            /\ UNCHANGED <<sites, running>>
    /\ UNCHANGED <<default_auth, default_port, server, handlers, rpc, rh,
                   rhdr, rbody, resp, decoded, invoked, payload, deferred,
                   reg_error>>
    /\ UNCHANGED <<rlVars, voteVars>>

\* ---------------------------------------------------------- specification
RatelimitInit ==
    /\ now = 0
    /\ constructed = [l \in Limiters |-> FALSE]
    /\ max_calls = [l \in Limiters |-> 0]
    /\ period = [l \in Limiters |-> 0]
    /\ calls = [l \in Limiters |-> <<>>]
    /\ lock = [l \in Limiters |-> NoHolder]
    /\ waiters = [l \in Limiters |-> <<>>]
    /\ members = [t \in Tasks |-> <<>>]
    /\ composite = [t \in Tasks |-> FALSE]
    /\ pc = [t \in Tasks |-> "idle"]
    /\ idx = [t \in Tasks |-> 1]
    /\ until = [t \in Tasks |-> 0]
    /\ child = [t \in Tasks |-> [i \in Pos |-> "none"]]
    /\ firstFail = [t \in Tasks |-> 0]
    /\ blocks = 0
    /\ admitted = [l \in Limiters |-> <<>>]
    /\ acq = [t \in Tasks |-> [i \in Pos |-> "no"]]

\* The limiters in use, beside a Webhooks nobody uses.
Init == RatelimitInit /\ WebhooksInit(NoneV, NoneV) /\ VoteUnused

TaskNext(t) ==
    \/ \E ms \in Targets : Begin(t, ms)
    \/ AenterGranted(t)
    \/ SleepWake(t)
    \/ Aexit(t)
    \/ GatherCall(t)
    \/ \E i \in Pos : ChildStep(t, i)
    \/ GatherResume(t)

Next ==
    \/ \E l \in Limiters, c \in Configs : RatelimiterInit(l, c[1], c[2])
    \/ \E t \in Workers : TaskNext(t)
    \/ Tick

Spec == Init /\ [][Next]_vars

\* The Webhooks in use, beside limiters nobody uses.
WebhookInit ==
    /\ RatelimitInit
    /\ \E auth \in DefaultAuthArgs, port \in DefaultPortArgs : WebhooksInit(auth, port)
    /\ VoteUnused

\* Routes are registered while the application is being put together: before
\* start() has set it up.
Assembling == sites = <<>> /\ \A c \in Callers : lpc[c] = "idle"

\* Routes are registered, the receiver is started, requests arrive.
WebhookNext ==
    \/ /\ Assembling
       /\ \E route \in RouteArgs, auth \in AuthArgs, cb \in Callbacks :
             on_vote(route, auth, cb)
    \/ \E r \in Reqs, h \in handlers, hdr \in Headers : HandlerCall(r, h, hdr)
    \/ \E r \in Reqs, b \in Bodies : HandlerBody(r, b)
    \/ \E r \in Reqs : DeferredCompletes(r)
    \/ \E r \in Reqs : HandlerAwaited(r)
    \/ \E c \in SerialCallers, port \in PortArgs : StartCall(c, port)
    \/ \E c \in SerialCallers, ok \in BOOLEAN : StartSetupDone(c, ok)
    \/ \E c \in SerialCallers, ok \in BOOLEAN : StartBindDone(c, ok)

WebhookSpec == WebhookInit /\ [][WebhookNext]_vars

\* start() and close() of the callers in cs, in any interleaving.
LifecycleNext(cs) ==
    \/ \E c \in cs, port \in PortArgs : StartCall(c, port)
    \/ \E c \in cs, ok \in BOOLEAN : StartSetupDone(c, ok)
    \/ \E c \in cs, ok \in BOOLEAN : StartBindDone(c, ok)
    \/ \E c \in cs : CloseCall(c)
    \/ \E c \in cs, ok \in BOOLEAN : CloseStopDone(c, ok)

\* One caller: every call ends before the next one begins.
SerialNext == LifecycleNext(SerialCallers)

LifecycleSpec == WebhookInit /\ [][SerialNext]_vars

\* Two callers: a call may begin while another is suspended.
ConcurrentNext == LifecycleNext(Callers)

ConcurrentSpec == WebhookInit /\ [][ConcurrentNext]_vars

\* A Vote is constructed from each raw structure.
VoteSpecInit ==
    /\ RatelimitInit
    /\ WebhooksInit(NoneV, NoneV)
    /\ raw \in RawStructures
    /\ built = NotBuilt

VoteNext == VoteNew

VoteSpec == VoteSpecInit /\ [][VoteNext]_vars

\* The same, with tasks that may be cancelled while they wait.
CancelNext ==
    \/ Next
    \/ \E t \in Workers : Cancel(t)

CancelSpec == Init /\ [][CancelNext]_vars

\* Three tasks share one Ratelimiter.
Shared == 1

QueueNext ==
    \/ \E l \in Limiters, c \in Configs : RatelimiterInit(l, c[1], c[2])
    \/ \E t \in Tasks : Enter(t, <<Shared>>, MaxQueueBlocks)
    \/ \E t \in Tasks : AenterGranted(t)
    \/ \E t \in Tasks : SleepWake(t)
    \/ \E t \in Tasks : Aexit(t)
    \/ Tick

QueueSpec == Init /\ [][QueueNext]_vars

\* The event loop runs every task that can run, and the clock advances.
FairSpec == Spec /\ WF_vars(Tick) /\ \A t \in Workers : WF_vars(TaskNext(t))

\* ================================================================= claims
Last(c) == c[Len(c)]

Pending(t, i) == child[t][i] \in {"start", "queued"}

\* A limiter with a positive quota and a positive period.
Valid(l) == max_calls[l] >= 1 /\ period[l] >= 1

\* C1: a limiter with max_calls = N >= 1 and period = P > 0 admits at most N
\* acquires (returns from __aenter__) inside any time window of length P.
C1_AtMostNPerWindow ==
    \A l \in Limiters :
        (constructed[l] /\ Valid(l)) =>
            \A s \in 0 .. now :
                Cardinality({k \in DOMAIN admitted[l] :
                                s <= admitted[l][k] /\ admitted[l][k] < s + period[l]})
                    <= max_calls[l]

\* Nothing is left to run: every task and every release has come to its end.
Quiescent == ~ENABLED Next

\* C4: when gather runs the member releases and the release of one member
\* fails, the release of every other member still runs to completion: once
\* nothing is left to run, every other member with a positive quota and
\* period has had its release end normally, with a timestamp recorded in its
\* calls.
C4_OtherReleasesComplete ==
    \A t \in Tasks :
        (Quiescent /\ composite[t] /\ firstFail[t] # 0) =>
            \A i \in 1 .. Len(members[t]) :
                (i # firstFail[t] /\ Valid(members[t][i])) =>
                    /\ child[t][i] = "done"
                    /\ calls[members[t][i]] # <<>>

\* C5: Ratelimiters.__aexit__ gives control back, normally or with an error,
\* only when no member release is still under way, and the error it raises
\* stands for every member release that failed.
C5_ReturnsAfterAllReleases ==
    \A t \in Tasks :
        pc[t] # "gathering" =>
            /\ \A i \in Pos : ~Pending(t, i)
            /\ (pc[t] = "raised" /\ composite[t]) =>
                   {i \in Pos : child[t][i] = "failed"} \subseteq {firstFail[t]}

\* C6: Ratelimiters.__aenter__ acquires its members one after another in
\* tuple order: a member's acquire has started only if every earlier one has
\* returned, and the block body runs only after all have returned.
C6_SequentialInOrder ==
    \A t \in Tasks :
        /\ \A i \in Pos, j \in Pos :
              (i < j /\ acq[t][j] # "no") => acq[t][i] = "returned"
        /\ pc[t] \in {"body", "gathering", "relqueued"} =>
              \A i \in 1 .. Len(members[t]) : acq[t][i] = "returned"

\* C6 witness: a task waits in the acquire of its second member.
C6_Witness ==
    \E t \in Tasks :
        /\ composite[t] /\ pc[t] \in {"queued", "sleeping"}
        /\ acq[t][1] = "returned" /\ acq[t][2] = "started"

\* A release of limiter l by holder h comes to its end in this step,
\* normally or with an exception.
ReleaseEnds(l, h) ==
    \E t \in Tasks :
        \/ /\ h = Self(t) /\ ~composite[t]
           /\ pc[t] \in {"body", "relqueued"} /\ pc'[t] \in {"idle", "raised"}
           /\ members[t][1] = l
        \/ \E i \in Pos :
              /\ h = ChildOf(t, i)
              /\ Pending(t, i) /\ child'[t][i] \in {"done", "failed"}
              /\ members[t][i] = l

\* c is what is left of a after dropping its first Len(a) - Len(c) entries.
IsSuffix(c, a) ==
    /\ Len(c) <= Len(a)
    /\ c = SubSeq(a, Len(a) - Len(c) + 1, Len(a))

\* C7: each release of a limiter with a positive quota and period, with
\* nobody else holding the lock, appends the current timestamp and drops
\* oldest entries while newest - oldest >= period: when it ends, calls is the
\* longest tail of the old calls plus now whose span is < period, and its
\* newest entry is now.
C7_ReleaseAppendsThenTrims ==
    [][\A l \in Limiters, h \in (Tasks \X ({0} \cup Pos)) :
          (ReleaseEnds(l, h) /\ Valid(l)) =>
              LET a == Append(calls[l], now)
                  c == calls'[l] IN
              /\ lock[l] \in {NoHolder, h}
              /\ c # <<>> /\ Last(c) = now
              /\ IsSuffix(c, a)
              /\ Timespan(c) < period[l]
              /\ Len(c) < Len(a) =>
                    Timespan(SubSeq(a, Len(a) - Len(c), Len(a))) >= period[l]]_vars

\* C8: outside a release's append-then-trim step (every state here: that
\* step has no await), calls of a limiter holds at most max_calls entries.
C8_CallsWithinQuota ==
    \A l \in Limiters : constructed[l] => Len(calls[l]) <= max_calls[l]

\* C9: no Ratelimiter with max_calls <= 0 or period <= 0 comes to exist:
\* construction with such arguments fails.
C9_NoInvalidLimiter ==
    \A l \in Limiters : constructed[l] => (max_calls[l] >= 1 /\ period[l] >= 1)

\* The request in slot r has reached the handler of its route.
Delivered(r) == rpc[r] # "none"

Unauthorized == [status |-> 401, text |-> "Unauthorized"]

Ok200 == [status |-> 200, text |-> "OK"]

\* C2: a request delivered to a registered route whose Authorization header
\* differs from the route's resolved credential, or is missing, is answered
\* 401; its body is never decoded and the callback is never called.
C2_MismatchIs401 ==
    \A r \in Reqs :
        (Delivered(r) /\ rhdr[r] # rh[r].auth) =>
            /\ rpc[r] = "responded"
            /\ resp[r] = Unauthorized
            /\ ~decoded[r]
            /\ invoked[r] = 0

\* C2 witness: a request without the header has been answered 401 by a
\* started receiver.
C2_Witness ==
    \E r \in Reqs :
        /\ Delivered(r) /\ rhdr[r] = NoneV
        /\ rh[r] \in handlers
        /\ resp[r] = Unauthorized

\* A body that decodes and holds what a Vote needs: a numeric "bot" (or,
\* without "bot", a numeric "guild"), a numeric "user", and a "type".
ValidBody(b) ==
    /\ b.decodes
    /\ IF b.bot # Absent THEN IsNumeric(b.bot) ELSE IsNumeric(b.guild)
    /\ IsNumeric(b.user)
    /\ b.type # Absent

\* C3: for a request with the correct credential and a valid body the
\* callback is called exactly once, with the Vote made from the body, and the
\* answer is 200 "OK"; when the callback returns an awaitable, the answer is
\* given only after that awaitable has completed.
C3_ValidRequestDispatchedOnce ==
    \A r \in Reqs :
        (Delivered(r) /\ rhdr[r] = rh[r].auth /\ ValidBody(rbody[r])) =>
            /\ rpc[r] \in {"reading", "awaiting", "responded"}
            /\ invoked[r] = (IF rpc[r] = "reading" THEN 0 ELSE 1)
            /\ rpc[r] # "reading" => payload[r] = VoteInit(rbody[r]).vote
            /\ rpc[r] # "responded" => resp[r] = NoResp
            /\ rpc[r] = "responded" =>
                  /\ resp[r] = Ok200
                  /\ rh[r].cb = "async" => deferred[r] = "done"

\* C3 witness: a request whose callback returned an awaitable has been
\* answered 200 "OK" after the awaitable completed.
C3_Witness ==
    \E r \in Reqs :
        /\ rhdr[r] = rh[r].auth /\ ValidBody(rbody[r])
        /\ rh[r].cb = "async"
        /\ rpc[r] = "responded" /\ resp[r] = Ok200
        /\ invoked[r] = 1 /\ deferred[r] = "done"

\* What the receiver keeps between requests: the running flag, the site, the
\* registered routes with their credentials, and the defaults.
Standing == <<running, server, sites, handlers, default_auth, default_port>>

RequestState(r) ==
    <<rpc[r], rh[r], rhdr[r], rbody[r], resp[r], decoded[r], invoked[r],
      payload[r], deferred[r]>>

\* C10: for a request with the correct credential whose body does not decode
\* or does not make a Vote, the handler ends with the failure: the callback
\* is not called, no response is made, and no step of the request changes
\* the running flag, the routes, their credentials or the defaults.
C10_BadBodyFailurePropagates ==
    [][\A r \in Reqs :
          (/\ rhdr'[r] = rh'[r].auth
           /\ rpc'[r] \notin {"none", "reading"}
           /\ ~ValidBody(rbody'[r])) =>
              /\ rpc'[r] = "failed"
              /\ invoked'[r] = 0
              /\ payload'[r] = NoVote
              /\ resp'[r] = NoResp
              /\ RequestState(r)' # RequestState(r) => UNCHANGED Standing]_vars

\* C10 witness: on a running receiver a request with the correct credential
\* and a JSON body that makes no Vote has ended with the failure.
C10_Witness ==
    \E r \in Reqs :
        /\ running /\ rh[r] \in handlers
        /\ rhdr[r] = rh[r].auth
        /\ rbody[r].decodes /\ ~ValidBody(rbody[r])
        /\ rpc[r] = "failed" /\ invoked[r] = 0 /\ resp[r] = NoResp

\* A credential that is there and not empty.
NonEmpty(a) == a # NoneV /\ a # ""

\* The credential of a registration: the per-route value if given, else the
\* receiver-wide default.
Resolved(auth) == IF NonEmpty(auth) THEN auth ELSE default_auth

\* C11: every call of on_vote for which no non-empty credential resolves
\* raises and binds no route; any other call binds at most its own route,
\* with the per-route credential if given and else the default; so every
\* bound route has a non-empty credential.
C11_RoutesHaveCredential ==
    [][<<handlers, reg_error>>' # <<handlers, reg_error>> =>
          /\ \A route \in RouteArgs, auth \in AuthArgs, cb \in Callbacks :
                on_vote(route, auth, cb) =>
                    IF ~NonEmpty(Resolved(auth))
                    THEN reg_error' # "" /\ handlers' = handlers
                    ELSE /\ handlers' \subseteq handlers \cup
                                {[route |-> route, auth |-> Resolved(auth), cb |-> cb]}
                         /\ reg_error' = "" => handlers' # {}
          /\ \A h \in handlers' : NonEmpty(h.auth) /\ h.route # NoneV]_vars

\* C11 witness: one registration has bound a route with its per-route
\* credential, and a later one, for which none resolved, has raised.
C11_Witness ==
    /\ reg_error = "Missing password."
    /\ \E h \in handlers : NonEmpty(h.auth) /\ h.auth # default_auth

\* The sites that were started and not stopped since.
Started == {i \in 1 .. Len(sites) : sites[i] = "started"}

\* C12: with one call at a time, start() on a running receiver returns at
\* once without an error, creates and starts no site and leaves running true;
\* close() on a receiver that is not running returns at once without an
\* error, stops nothing and leaves running false; so a running receiver has
\* exactly one started site, and no receiver has more.
C12_StartCloseIdempotent ==
    [][\A c \in SerialCallers :
          /\ (running /\ \E port \in PortArgs : StartCall(c, port)) =>
                 /\ lres'[c] = Ended("start", "skipped")
                 /\ running'
                 /\ UNCHANGED <<sites, server, lpc>>
          /\ (~running /\ CloseCall(c)) =>
                 /\ lres'[c] = Ended("close", "skipped")
                 /\ ~running'
                 /\ UNCHANGED <<sites, server, lpc>>
          /\ Cardinality(Started') <= 1
          /\ running' => Cardinality(Started') = 1]_vars

\* C12 witness: start() was called on a running receiver and has returned at
\* once; one site is started.
C12_Witness ==
    \E c \in SerialCallers :
        /\ lres[c] = Ended("start", "skipped")
        /\ running /\ Cardinality(Started) = 1 /\ Len(sites) = 1

\* C13: running changes only when a start or a stop succeeds: it becomes
\* true only as start() returns after its site started, and false only as
\* close() returns after the stop; a start() that has raised (no port, or
\* setup or bind raised) has left it false, a close() whose stop raised has
\* left it true; and while it is true some site is started and not stopped.
C13_RunningOnlyOnSuccess ==
    [][\A c \in SerialCallers :
          /\ (running' /\ ~running) =>
                 lpc[c] = "binding" /\ lres'[c] = Ended("start", "returned")
          /\ (~running' /\ running) =>
                 lpc[c] = "stopping" /\ lres'[c] = Ended("close", "returned")
          /\ lres'[c] \in {Ended("start", "TypeError"), Ended("start", "raised")} =>
                 ~running'
          /\ lres'[c] = Ended("close", "raised") => running'
          /\ running' => Started' # {}]_vars

\* C13 witness: the stop of a close() has raised, and the receiver is still
\* running with its site started.
C13_Witness ==
    \E c \in SerialCallers :
        /\ lres[c] = Ended("close", "raised")
        /\ running /\ Started # {}

\* A required field of the raw structure is missing.
FieldMissing(j) ==
    \/ j.bot = Absent /\ j.guild = Absent
    \/ j.user = Absent
    \/ j.type = Absent

\* Every id the raw structure holds is a number.
IdsNumeric(j) ==
    \A v \in {j.bot, j.guild, j.user} : v # Absent => IsNumeric(v)

\* C14: constructing a Vote fails whenever bot and guild are both absent, or
\* user is absent, or type is absent, and, the ids present being numbers, in
\* no other case (so never for an absent isWeekend or query); when it
\* succeeds is_server tells whether guild is present and receiver_id is the
\* number under bot when bot is present, else the one under guild.
C14_VoteFailsIffFieldMissing ==
    built # NotBuilt =>
        /\ FieldMissing(raw) => ~built.ok
        /\ (IdsNumeric(raw) /\ ~built.ok) => FieldMissing(raw)
        /\ built.ok =>
              /\ built.vote.is_server = (raw.guild # Absent)
              /\ built.vote.receiver_id =
                     ToInt(IF raw.bot # Absent THEN raw.bot ELSE raw.guild)

\* C14 witness: a Vote built from a structure holding both bot and guild and
\* neither isWeekend nor query: it is a server vote whose receiver is the bot.
C14_Witness ==
    /\ built.ok
    /\ raw.bot = "123" /\ raw.guild = "456"
    /\ raw.isWeekend = Absent /\ raw.query = Absent
    /\ built.vote.is_server /\ built.vote.receiver_id = 123

\* Task t is in the check-and-wait section of limiter l: its __aenter__ of l
\* has the lock and has not returned. (An __aenter__ that does not sleep
\* passes through the section without any other task running.)
InSection(t, l) ==
    /\ pc[t] = "sleeping"
    /\ members[t][idx[t]] = l

\* C15: a task in the check-and-wait section of a limiter holds its lock and
\* is the only task there; and as long as it stays there, sleeping, no other
\* __aenter__ of that limiter returns (the admissions kept are those there
\* were, less the ones forgotten) or starts to sleep, no release changes its
\* calls, and the lock stays where it is.
C15_LockHeldThroughSleep ==
    [][\A l \in Limiters, t \in Tasks :
          /\ InSection(t, l)' =>
                 /\ lock'[l] = Self(t)
                 /\ \A u \in Tasks \ {t} : ~InSection(u, l)'
          /\ (InSection(t, l) /\ InSection(t, l)') =>
                 /\ IsSuffix(admitted'[l], admitted[l])
                 /\ calls'[l] = calls[l]
                 /\ lock'[l] = lock[l]]_vars

\* C15 witness: a task sleeps in the section of a limiter while another
\* task's __aenter__ of the same limiter waits for the lock.
C15_Witness ==
    \E l \in Limiters, t \in Tasks, u \in Tasks :
        /\ t # u
        /\ InSection(t, l)
        /\ now < until[t]
        /\ pc[u] = "queued" /\ members[u][idx[u]] = l
        /\ waiters[l] = <<Self(u)>>

\* C16: a task that sleeps in __aenter__ of a limiter sleeps until the oldest
\* recorded call of that limiter leaves the window: until oldest timestamp +
\* period, a moment still to come when the sleep begins.
C16_SleepsUntilOldestLeaves ==
    \A l \in Limiters, t \in Tasks :
        InSection(t, l) =>
            /\ calls[l] # <<>>
            /\ until[t] = calls[l][1] + period[l]

\* The acquire of limiter l by task t has asked for the lock and has not
\* returned.
Acquiring(t, l) ==
    /\ pc[t] \in {"queued", "sleeping"}
    /\ members[t][idx[t]] = l

\* How many asked for the lock of l before task t did, of those that have not
\* returned: the lock is asked for in the order holder, then queue.
Place(t, l) ==
    IF lock[l] = Self(t) THEN 0
    ELSE IF \E i \in 1 .. Len(waiters[l]) : waiters[l][i] = Self(t)
    THEN CHOOSE i \in 1 .. Len(waiters[l]) : waiters[l][i] = Self(t)
    ELSE Len(waiters[l]) + 1

Before(a, b, l) ==
    /\ Acquiring(a, l) /\ Acquiring(b, l)
    /\ Place(a, l) < Place(b, l)

\* C17: of two tasks acquiring one limiter, the one that asked for its lock
\* first returns first: the other does not return while the first has not,
\* and as long as neither has returned their order stays.
C17_AcquirersServedFifo ==
    [][\A l \in Limiters, a \in Tasks, b \in Tasks :
          Before(a, b, l) =>
              /\ Acquiring(a, l)' => Acquiring(b, l)'
              /\ (Acquiring(a, l)' /\ Acquiring(b, l)') => Before(a, b, l)']_vars

\* C17 witness: the first of two queued acquirers has been handed the lock
\* and sleeps, the second still waits, and the task that had the lock before
\* them is in its block.
C17_Witness ==
    \E l \in Limiters, a \in Tasks, b \in Tasks, c \in Tasks :
        /\ pc[c] = "body" /\ members[c] = <<l>>
        /\ pc[a] = "sleeping" /\ lock[l] = Self(a) /\ members[a] = <<l>>
        /\ pc[b] = "queued" /\ waiters[l] = <<Self(b)>>
        /\ blocks = 3

\* Task t is in an acquire, or about to begin one.
InAcquire(t) == pc[t] \in {"idle", "raised", "cancelled", "queued", "sleeping"}

\* C18: no step of an acquire changes calls of any limiter, whether the
\* acquire begins, queues for the lock, is handed it, sleeps, returns, or is
\* cancelled while queued or asleep; calls changes only in a step of a
\* release or at construction.
C18_AcquireNeverRecords ==
    [][/\ (\E t \in Tasks : InAcquire(t) /\ pc'[t] # pc[t]) => calls' = calls
       /\ \A l \in Limiters :
             calls'[l] # calls[l] =>
                 \/ ~constructed[l]
                 \/ \E t \in Tasks :
                       /\ ~InAcquire(t)
                       /\ \E i \in 1 .. Len(members[t]) : members[t][i] = l
                       /\ <<pc[t], child[t]>>' # <<pc[t], child[t]>>]_vars

\* C18 witness: one acquire was cancelled asleep, another, queued behind it,
\* was handed the lock by that and returned, and nothing is recorded.
C18_Witness ==
    \E l \in Limiters, t \in Tasks, u \in Tasks :
        /\ pc[t] = "cancelled" /\ members[t] = <<l>>
        /\ pc[u] = "body" /\ members[u] = <<l>>
        /\ max_calls[l] <= 0 /\ period[l] > 0
        /\ calls[l] = <<>>

\* C19: under fair scheduling and an advancing clock, every acquire that has
\* started returns (the task comes to the body of its block), and every
\* release that has started completes (the task leaves its block normally).
C19_AcquireAndReleaseComplete ==
    \A t \in Workers :
        /\ (pc[t] \in {"queued", "sleeping"}) ~> (pc[t] = "body")
        /\ (pc[t] \in {"body", "relqueued", "gathering"}) ~> (pc[t] = "idle")

\* C20: whatever way calls of start() interleave, at most one site is
\* started at a time, and a started site is the one the stored reference
\* names, the one close() will stop.
C20_ConcurrentStartsOneServer ==
    /\ Cardinality(Started) <= 1
    /\ \A i \in Started : server = i

====
